---------------------------- MODULE Spec2Model ----------------------------
(***************************************************************************)
(* A model of hlalljie/json-parser-python: the recursive-descent JSON      *)
(* validator (src/src/json_validator.py), its error codes                  *)
(* (src/src/json_validator_errors.py) and its two command-line wrappers.   *)
(*                                                                         *)
(* One JsonValidator object is modelled with its four fields (_file,       *)
(* _token, _line, _column) and the Python call stack of the running        *)
(* validate_json call.  Every grammar routine is one action; a step of an  *)
(* action runs the routine from its current program point to its next     *)
(* call, return or raise.  The file system holds one JSON file whose       *)
(* content is fixed in the initial state.                                  *)
(***************************************************************************)
EXTENDS Integers, Sequences, FiniteSets, TLC

(***************************************************************************)
(* Characters.  A character is a one-element tag: printable ASCII stands   *)
(* for itself, the others are named by code point.  The end-of-input       *)
(* sentinel is Python's empty string.                                      *)
(***************************************************************************)
EOF == ""
QUOTE == "\""
BACKSLASH == "\\"
SPACE == " "
TAB == "\t"
CR == "\r"
LF == "\n"
\* U+0001, a control character other than tab, CR and LF.
SOH == "U+0001"
\* U+0663 ARABIC-INDIC DIGIT THREE: str.isdigit() is True, not an ASCII digit.
ARABIC3 == "U+0663"
\* A byte sequence that is not valid UTF-8 (it is no character of the text).
BADBYTE == "0xFF"

AsciiDigits == {"0", "1", "2", "3", "4", "5", "6", "7", "8", "9"}

\* str.isdigit() of one character or of the empty string (False).
isdigit(c) == c \in AsciiDigits \cup {ARABIC3}

\* `c in "1234567890abcdefABCDEF"` for a one-character c.
in_hex_char(c) ==
    c \in AsciiDigits \cup {"a", "b", "c", "d", "e", "f", "A", "B", "C", "D", "E", "F"}

\* ErrorCode, had INVALID_START_ERROR been given the value of FILE_NOT_FOUND.
ErrorCode_colliding ==
    [SUCCESS |-> 0, INVALID_JSON |-> 1,
     FILE_NOT_FOUND |-> 2, FILE_READ_ERROR |-> 3, FILE_TYPE_ERROR |-> 4,
     FILE_MISSING_ERROR |-> 5,
     STRING_HEX_ERROR |-> 6, STRING_ESCAPE_ERROR |-> 7, STRING_EOF_ERROR |-> 8,
     STRING_CHARACTER_ERROR |-> 9,
     NUMBER_EOF_ERROR |-> 10, NUMBER_DIGIT_ERROR |-> 11,
     NUMBER_EXPONENT_ERROR |-> 12, NUMBER_LEADING_ZERO_ERROR |-> 13,
     VALUE_EOF_ERROR |-> 14, VALUE_CHARACTER_ERROR |-> 15,
     ARRAY_EOF_ERROR |-> 16, ARRAY_CHARACTER_ERROR |-> 17,
     OBJECT_EOF_ERROR |-> 18, OBJECT_KEY_ERROR |-> 19,
     OBJECT_SEPARATOR_ERROR |-> 20, OBJECT_VALUE_ERROR |-> 21,
     OBJECT_CLOSE_ERROR |-> 22,
     INVALID_START_ERROR |-> 2, EOF_CHARACTER_ERROR |-> 24,
     UNRECOGNIZED_ERROR |-> 25]

(***************************************************************************)
(* ErrorCode: the integer value of every member.                           *)
(***************************************************************************)
ErrorCode ==
    [SUCCESS |-> 0, INVALID_JSON |-> 1,
     FILE_NOT_FOUND |-> 2, FILE_READ_ERROR |-> 3, FILE_TYPE_ERROR |-> 4,
     FILE_MISSING_ERROR |-> 5,
     STRING_HEX_ERROR |-> 6, STRING_ESCAPE_ERROR |-> 7, STRING_EOF_ERROR |-> 8,
     STRING_CHARACTER_ERROR |-> 9,
     NUMBER_EOF_ERROR |-> 10, NUMBER_DIGIT_ERROR |-> 11,
     NUMBER_EXPONENT_ERROR |-> 12, NUMBER_LEADING_ZERO_ERROR |-> 13,
     VALUE_EOF_ERROR |-> 14, VALUE_CHARACTER_ERROR |-> 15,
     ARRAY_EOF_ERROR |-> 16, ARRAY_CHARACTER_ERROR |-> 17,
     OBJECT_EOF_ERROR |-> 18, OBJECT_KEY_ERROR |-> 19,
     OBJECT_SEPARATOR_ERROR |-> 20, OBJECT_VALUE_ERROR |-> 21,
     OBJECT_CLOSE_ERROR |-> 22,
     INVALID_START_ERROR |-> 23, EOF_CHARACTER_ERROR |-> 24,
     UNRECOGNIZED_ERROR |-> 25]

\* No error_if_eof argument (the default None of _get_char).
NoError == "None"

(***************************************************************************)
(* Limits of the interpreter the validator runs on.                        *)
(***************************************************************************)
\* sys.getrecursionlimit(): the deepest Python call stack before RecursionError.
RecursionLimit == 1000
\* The text layer decodes the file one chunk at a time (io.DEFAULT_BUFFER_SIZE).
ChunkSize == 8192

(***************************************************************************)
(* The state.                                                              *)
(***************************************************************************)
VARIABLES
    disk,        \* the content of the JSON file on disk, as stored (a sequence)
    file,        \* self._file: [state, text, pos]
    token,       \* self._token
    line,        \* self._line
    column,      \* self._column
    stack,       \* the call stack of the running validate_json, innermost last
    outcome,     \* how the latest validate_json call ended
    fetches,     \* _get_char calls made by the latest validate_json call
    opens,       \* files opened by the latest validate_json call
    path,        \* the filename argument of the latest validate_json call
    caller,      \* who made the call: "api" (a library user) or "cli" (a process)
    exit_status, \* the exit status of the command-line process, once it ended
    other        \* a second JsonValidator and its call: [s, filename, content]

vars == <<disk, file, token, line, column, stack, outcome, fetches, opens,
          path, caller, exit_status, other>>


(***************************************************************************)
(* The validator as a value: the four fields of the object, the call       *)
(* stack and the bookkeeping of the running call.  The routines below are  *)
(* functions from such a value to the value after one step.                *)
(***************************************************************************)
Self ==
    [file |-> file, token |-> token, line |-> line, column |-> column,
     stack |-> stack, outcome |-> outcome, fetches |-> fetches, opens |-> opens]

Becomes(s) ==
    /\ file' = s.file
    /\ token' = s.token
    /\ line' = s.line
    /\ column' = s.column
    /\ stack' = s.stack
    /\ outcome' = s.outcome
    /\ fetches' = s.fetches
    /\ opens' = s.opens

\* A frame of the call stack: the routine, its program point, and the number of
\* characters the call had fetched when the routine was entered.
Frame(fn, pc) == [fn |-> fn, pc |-> pc, at |-> 0]
Top(s) == s.stack[Len(s.stack)]
Depth(s) == Len(s.stack)
\* The call has ended: by a return of validate_json or by an exception.
Ended(s) == s.stack = <<>>

NoOutcome == [type |-> "none", code |-> "", line |-> 0, column |-> 0]
Pending == [type |-> "pending", code |-> "", line |-> 0, column |-> 0]
Returned == [type |-> "return", code |-> "", line |-> 0, column |-> 0]
Exception(type) == [type |-> type, code |-> "", line |-> 0, column |-> 0]

\* An exception nothing in the validator catches unwinds every frame.
Throw(s, type) == [s EXCEPT !.stack = <<>>, !.outcome = Exception(type)]

\* A Python call made `extra` frames above the routine on top of the stack
\* fails with RecursionError when the stack would pass the limit.
TooDeep(s, extra) == Depth(s) + extra > RecursionLimit

\* _raise_error, called `extra - 1` frames above the routine on top.
RaiseAt(s, error_code, extra) ==
    IF TooDeep(s, extra)
    THEN Throw(s, "RecursionError")
    ELSE [s EXCEPT !.stack = <<>>,
                   !.outcome = [type |-> "JSONValidatorError", code |-> error_code,
                                line |-> s.line, column |-> s.column]]

\* self._raise_error(message, error_code) in a grammar routine.
_raise_error(s, error_code) == RaiseAt(s, error_code, 1)

\* Continue with K unless s raised.
Then(s, K(_)) == IF Ended(s) THEN s ELSE K(s)

\* self.<callee>() from the routine on top, which resumes at ret_pc.
Call(s, ret_pc, callee) ==
    IF TooDeep(s, 1)
    THEN Throw(s, "RecursionError")
    ELSE [s EXCEPT !.stack = Append([s.stack EXCEPT ![Len(s.stack)].pc = ret_pc],
                                    [Frame(callee, 0) EXCEPT !.at = s.fetches])]

\* return from the routine on top.
Return(s) == [s EXCEPT !.stack = SubSeq(s.stack, 1, Len(s.stack) - 1)]

\* The routine on top moves on to program point pc.
Goto(s, pc) == [s EXCEPT !.stack[Len(s.stack)].pc = pc]

(***************************************************************************)
(* The file object: open(filename, "r", encoding="UTF-8").  The text layer *)
(* decodes a chunk when its buffer is empty and fails if the chunk is not  *)
(* valid UTF-8; it reads in universal-newlines mode (newline=None), where  *)
(* "\r\n" and a lone "\r" both come out as "\n".                           *)
(***************************************************************************)
NoFile == [state |-> "None", text |-> <<>>, pos |-> 0]

ChunkEnd(f) == IF f.pos + ChunkSize < Len(f.text) THEN f.pos + ChunkSize ELSE Len(f.text)

\* read(1) raises UnicodeDecodeError.
ReadFails(f) ==
    /\ f.pos % ChunkSize = 0
    /\ \E i \in (f.pos + 1)..ChunkEnd(f) : f.text[i] = BADBYTE

\* The character read(1) returns; "" at end of file.
ReadChar(f) ==
    IF f.pos >= Len(f.text) THEN EOF
    ELSE IF f.text[f.pos + 1] = CR THEN LF
    ELSE f.text[f.pos + 1]

\* The position of the file after read(1).
ReadPos(f) ==
    IF f.pos >= Len(f.text) THEN f.pos
    ELSE IF /\ f.text[f.pos + 1] = CR
            /\ f.pos + 2 <= Len(f.text)
            /\ f.text[f.pos + 2] = LF
         THEN f.pos + 2
    ELSE f.pos + 1

(***************************************************************************)
(* _get_char(error_if_eof), called `extra - 1` frames above the routine on *)
(* top of the stack.                                                       *)
(***************************************************************************)
GetCharAt(s, error_if_eof, extra) ==
    IF TooDeep(s, extra) THEN Throw(s, "RecursionError")
    ELSE LET c == [s EXCEPT !.column = s.column + 1, !.fetches = s.fetches + 1]
         IN  IF ReadFails(c.file)
             THEN RaiseAt(c, "FILE_READ_ERROR", extra + 1)
             ELSE LET r == [c EXCEPT !.token = ReadChar(c.file),
                                     !.file.pos = ReadPos(c.file)]
                  IN  IF r.token = EOF /\ error_if_eof /= NoError
                      THEN RaiseAt(r, error_if_eof, extra + 1)
                      ELSE r

\* self._get_char(error_if_eof) in a grammar routine.
_get_char(s, error_if_eof) == GetCharAt(s, error_if_eof, 1)

(***************************************************************************)
(* The grammar routines.  Each is a function of the validator value: it    *)
(* runs the routine on top of the stack from its program point pc to its   *)
(* next call, return or raise, fetching at most one character.             *)
(***************************************************************************)
pc_of(s) == Top(s).pc

\* A whitespace skipper that calls itself without fetching the next character.
whitespace_rest_without_fetch(s) ==
    IF s.token \in {TAB, CR, LF} THEN Call(s, 2, "_whitespace") ELSE Return(s)

\* _whitespace from `if self._token == "\t"` on.
whitespace_rest(s) ==
    IF s.token = TAB
    THEN Then(_get_char(s, NoError),
              LAMBDA g : Call([g EXCEPT !.column = g.column + 3], 2, "_whitespace"))
    ELSE IF s.token = CR
    THEN Then(_get_char(s, NoError),
              LAMBDA g : Call([g EXCEPT !.column = 1], 2, "_whitespace"))
    ELSE IF s.token = LF
    THEN Then(_get_char(s, NoError),
              LAMBDA g : Call([g EXCEPT !.line = g.line + 1, !.column = 1],
                              2, "_whitespace"))
    ELSE Return(s)

_whitespace(s) ==
    CASE pc_of(s) = 0 ->
           IF s.token = SPACE
           THEN Then(_get_char(s, NoError), LAMBDA g : Call(g, 1, "_whitespace"))
           ELSE whitespace_rest(s)
      [] pc_of(s) = 1 -> whitespace_rest(s)
      [] OTHER -> Return(s)

\* One round of `for _ in range(4)`; pc counts the rounds done.
_string_hex(s) ==
    Then(_get_char(s, "STRING_HEX_ERROR"),
         LAMBDA g : IF ~in_hex_char(g.token) THEN _raise_error(g, "STRING_HEX_ERROR")
                    ELSE IF pc_of(g) < 3 THEN Goto(g, pc_of(g) + 1)
                    ELSE Return(g))

SingleEscapes == {QUOTE, BACKSLASH, "/", "b", "f", "n", "r", "t"}

_string_backslash(s) ==
    CASE pc_of(s) = 0 ->
           Then(_get_char(s, "STRING_ESCAPE_ERROR"),
                LAMBDA g : IF g.token \in SingleEscapes THEN Return(g)
                           ELSE IF g.token = "u" THEN Call(g, 1, "_string_hex")
                           ELSE _raise_error(g, "STRING_ESCAPE_ERROR"))
      [] OTHER -> Return(s)

_string_char(s) ==
    CASE pc_of(s) = 0 ->
           Then(_get_char(s, "STRING_EOF_ERROR"),
                LAMBDA g : IF g.token = BACKSLASH THEN Call(g, 1, "_string_backslash")
                           ELSE IF g.token = TAB
                           THEN _raise_error(g, "STRING_CHARACTER_ERROR")
                           ELSE IF g.token = LF
                           THEN _raise_error(g, "STRING_CHARACTER_ERROR")
                           ELSE IF g.token = QUOTE THEN Return(g)
                           ELSE Call(g, 2, "_string_char"))
      [] pc_of(s) = 1 -> Call(s, 2, "_string_char")
      [] OTHER -> Return(s)

_string(s) ==
    CASE pc_of(s) = 0 -> Call(s, 1, "_string_char")
      [] OTHER -> Then(_get_char(s, NoError), LAMBDA g : Return(g))

_digit(s) ==
    CASE pc_of(s) = 0 ->
           Then(_get_char(s, NoError),
                LAMBDA g : IF isdigit(g.token) THEN Call(g, 1, "_digit") ELSE Return(g))
      [] OTHER -> Return(s)

_decimal(s) ==
    CASE pc_of(s) = 0 ->
           Then(_get_char(s, "NUMBER_EOF_ERROR"),
                LAMBDA g : IF ~isdigit(g.token) THEN _raise_error(g, "NUMBER_DIGIT_ERROR")
                           ELSE Call(g, 1, "_digit"))
      [] OTHER -> Return(s)

\* _exponent from `if self._token.isdigit()` on.
exponent_digits(s) ==
    IF isdigit(s.token) THEN Call(s, 2, "_digit")
    ELSE _raise_error(s, "NUMBER_EXPONENT_ERROR")

_exponent(s) ==
    CASE pc_of(s) = 0 ->
           Then(_get_char(s, "NUMBER_EXPONENT_ERROR"),
                LAMBDA g : IF g.token = "-" \/ g.token = "+" THEN Goto(g, 1)
                           ELSE exponent_digits(g))
      [] pc_of(s) = 1 ->
           Then(_get_char(s, "NUMBER_EXPONENT_ERROR"), LAMBDA g : exponent_digits(g))
      [] OTHER -> Return(s)

\* _number from `if self._token == "e" or self._token == "E"` on.
number_exponent(s) ==
    IF s.token = "e" \/ s.token = "E" THEN Call(s, 4, "_exponent") ELSE Return(s)

\* _number from `if self._token == "."` on.
number_decimal(s) ==
    IF s.token = "." THEN Call(s, 3, "_decimal") ELSE number_exponent(s)

\* _number from `if self._token == '0'` on.
number_integer(s) ==
    IF s.token = "0"
    THEN Then(_get_char(s, NoError),
              LAMBDA g : IF isdigit(g.token)
                         THEN _raise_error(g, "NUMBER_LEADING_ZERO_ERROR")
                         ELSE number_decimal(g))
    ELSE IF isdigit(s.token) THEN Call(s, 2, "_digit")
    ELSE _raise_error(s, "NUMBER_DIGIT_ERROR")

_number(s) ==
    CASE pc_of(s) = 0 ->
           IF s.token = "-"
           THEN Then(_get_char(s, "NUMBER_EOF_ERROR"), LAMBDA g : Goto(g, 1))
           ELSE number_integer(s)
      [] pc_of(s) = 1 -> number_integer(s)
      [] pc_of(s) = 2 -> number_decimal(s)
      [] pc_of(s) = 3 -> number_exponent(s)
      [] OTHER -> Return(s)

\* The body shared by _true_value, _false_value and _null_value: `rest` is the
\* keyword without its first letter, pc - 1 the letters of it matched so far.
keyword_value(s, rest) ==
    IF pc_of(s) = 0
    THEN Then(_get_char(s, "VALUE_EOF_ERROR"), LAMBDA g : Goto(g, 1))
    ELSE IF rest[pc_of(s)] /= s.token THEN _raise_error(s, "VALUE_CHARACTER_ERROR")
    ELSE Then(_get_char(s, "VALUE_EOF_ERROR"),
              LAMBDA g : IF pc_of(g) < Len(rest) THEN Goto(g, pc_of(g) + 1)
                         ELSE Return(g))

_true_value(s) == keyword_value(s, <<"r", "u", "e">>)
_false_value(s) == keyword_value(s, <<"a", "l", "s", "e">>)
_null_value(s) == keyword_value(s, <<"u", "l", "l">>)

_value(s) ==
    CASE pc_of(s) = 0 -> Call(s, 1, "_whitespace")
      [] pc_of(s) = 1 ->
           IF s.token = QUOTE THEN Call(s, 2, "_string")
           ELSE IF s.token = "-" \/ isdigit(s.token) THEN Call(s, 2, "_number")
           ELSE IF s.token = "{" THEN Call(s, 2, "_json_object")
           ELSE IF s.token = "[" THEN Call(s, 2, "_array")
           ELSE IF s.token = "t" THEN Call(s, 2, "_true_value")
           ELSE IF s.token = "f" THEN Call(s, 2, "_false_value")
           ELSE IF s.token = "n" THEN Call(s, 2, "_null_value")
           ELSE _raise_error(s, "VALUE_CHARACTER_ERROR")
      [] pc_of(s) = 2 -> Call(s, 3, "_whitespace")
      [] OTHER -> Return(s)

_value_list(s) ==
    CASE pc_of(s) = 0 -> Call(s, 1, "_value")
      [] pc_of(s) = 1 ->
           IF s.token = ","
           THEN Then(_get_char(s, "ARRAY_EOF_ERROR"),
                     LAMBDA g : Call(g, 2, "_value_list"))
           ELSE Return(s)
      [] OTHER -> Return(s)

_array(s) ==
    CASE pc_of(s) = 0 ->
           Then(_get_char(s, "ARRAY_EOF_ERROR"), LAMBDA g : Call(g, 1, "_whitespace"))
      [] pc_of(s) = 1 ->
           IF s.token = "]" THEN Then(_get_char(s, NoError), LAMBDA g : Return(g))
           ELSE Call(s, 2, "_value_list")
      [] OTHER ->
           IF s.token = "]" THEN Then(_get_char(s, NoError), LAMBDA g : Return(g))
           ELSE _raise_error(s, "ARRAY_CHARACTER_ERROR")

_key_value_list(s) ==
    CASE pc_of(s) = 0 ->
           IF s.token /= QUOTE THEN _raise_error(s, "OBJECT_KEY_ERROR")
           ELSE Call(s, 1, "_string")
      [] pc_of(s) = 1 -> Call(s, 2, "_whitespace")
      [] pc_of(s) = 2 ->
           IF s.token /= ":" THEN _raise_error(s, "OBJECT_SEPARATOR_ERROR")
           ELSE Then(_get_char(s, "OBJECT_EOF_ERROR"),
                     LAMBDA g : Call(g, 3, "_whitespace"))
      [] pc_of(s) = 3 -> Call(s, 4, "_value")
      [] pc_of(s) = 4 ->
           IF s.token = ","
           THEN Then(_get_char(s, "OBJECT_EOF_ERROR"),
                     LAMBDA g : Call(g, 5, "_whitespace"))
           ELSE Return(s)
      [] pc_of(s) = 5 -> Call(s, 6, "_key_value_list")
      [] OTHER -> Return(s)

_json_object(s) ==
    CASE pc_of(s) = 0 ->
           Then(_get_char(s, "OBJECT_EOF_ERROR"), LAMBDA g : Call(g, 1, "_whitespace"))
      [] pc_of(s) = 1 ->
           IF s.token = "}" THEN Then(_get_char(s, NoError), LAMBDA g : Return(g))
           ELSE Call(s, 2, "_key_value_list")
      [] OTHER ->
           IF s.token = "}" THEN Then(_get_char(s, NoError), LAMBDA g : Return(g))
           ELSE _raise_error(s, "OBJECT_CLOSE_ERROR")

(***************************************************************************)
(* Paths and the file system.  A path is the sequence of its characters.   *)
(* The file system holds one regular file, a directory and a file the      *)
(* process may not read; every other path is absent.                       *)
(***************************************************************************)
P_NONE == <<>>
P_NODOT == <<"d", "a", "t", "a">>
P_TEXT == <<"a", ".", "t", "x", "t">>
P_BACKUP == <<"a", ".", "j", "s", "o", "n", ".", "b", "a", "k">>
P_JSON == <<"a", ".", "j", "s", "o", "n">>
P_ABSENT == <<"n", "o", ".", "j", "s", "o", "n">>
P_DIR == <<"d", ".", "j", "s", "o", "n">>
P_LOCKED == <<"p", ".", "j", "s", "o", "n">>

Paths == {P_NONE, P_NODOT, P_TEXT, P_BACKUP, P_JSON, P_ABSENT, P_DIR, P_LOCKED}

FileKind(filename) ==
    CASE filename = P_JSON -> "file"
      [] filename = P_DIR -> "directory"
      [] filename = P_LOCKED -> "unreadable"
      [] OTHER -> "absent"

\* `"." in filename`
has_dot(filename) == \E i \in 1..Len(filename) : filename[i] = "."

\* filename.endswith(".json")
endswith_json(filename) ==
    /\ Len(filename) >= 5
    /\ SubSeq(filename, Len(filename) - 4, Len(filename)) = <<".", "j", "s", "o", "n">>

\* open(filename, "r", encoding="UTF-8") and the rest of open_file.
open_and_fetch(s, filename, content) ==
    CASE FileKind(filename) = "absent" -> _raise_error(s, "FILE_NOT_FOUND")
      [] FileKind(filename) = "directory" -> Throw(s, "IsADirectoryError")
      [] FileKind(filename) = "unreadable" -> Throw(s, "PermissionError")
      [] OTHER ->
           Then(_get_char([s EXCEPT !.file = [state |-> "open", text |-> content,
                                              pos |-> 0],
                                    !.opens = s.opens + 1,
                                    !.line = 1,
                                    !.column = 0],
                          NoError),
                LAMBDA g : Return(g))

\* open_file, had it checked the extension before the ".".
open_file_type_first(s, filename, content) ==
    IF ~endswith_json(filename)
    THEN _raise_error(s, "FILE_TYPE_ERROR")
    ELSE IF filename = <<>> \/ ~has_dot(filename)
    THEN _raise_error(s, "FILE_MISSING_ERROR")
    ELSE open_and_fetch(s, filename, content)

open_file(s, filename, content) ==
    IF filename = <<>> \/ ~has_dot(filename)
    THEN _raise_error(s, "FILE_MISSING_ERROR")
    ELSE IF ~endswith_json(filename)
    THEN _raise_error(s, "FILE_TYPE_ERROR")
    ELSE open_and_fetch(s, filename, content)

close_file(s) == [s EXCEPT !.file.state = "closed"]

validate_json(s) ==
    CASE pc_of(s) = 0 -> Call(s, 1, "open_file")
      [] pc_of(s) = 1 -> Call(s, 2, "_whitespace")
      [] pc_of(s) = 2 ->
           IF s.token = "{" THEN Call(s, 3, "_json_object")
           ELSE IF s.token = "[" THEN Call(s, 3, "_array")
           ELSE _raise_error(s, "INVALID_START_ERROR")
      [] pc_of(s) = 3 -> Call(s, 4, "_whitespace")
      [] OTHER ->
           IF s.token /= EOF THEN _raise_error(s, "EOF_CHARACTER_ERROR")
           ELSE [Return(close_file(s)) EXCEPT !.outcome = Returned]

(***************************************************************************)
(* The command-line wrappers.  Both are click commands run in click's      *)
(* standalone mode: the process exits with the exit_code of a raised       *)
(* ClickException, and with 0 when the command function returns, whatever  *)
(* it returns.                                                             *)
(***************************************************************************)
Returns(value) == [how |-> "return", value |-> value]
RaisesClickException(exit_code) == [how |-> "ClickException", value |-> exit_code]

\* cli, had it returned the error's code as main does instead of raising.
cli_result_returning(o) ==
    IF o.type = "return" THEN Returns(0)
    ELSE IF o.type = "JSONValidatorError" THEN Returns(ErrorCode[o.code])
    ELSE Returns(ErrorCode.UNRECOGNIZED_ERROR)

\* src/json_validator/json_validator_cli.py: cli(json_file), after validate_json.
cli_result(o) ==
    IF o.type = "return" THEN Returns(0)
    ELSE IF o.type = "JSONValidatorError" THEN RaisesClickException(ErrorCode[o.code])
    ELSE Returns(ErrorCode.UNRECOGNIZED_ERROR)

\* src/json_validator_cli.py: main(json_file), after validate_json.
main_result(o) ==
    IF o.type = "return" THEN Returns(0)
    ELSE IF o.type = "JSONValidatorError" THEN Returns(ErrorCode[o.code])
    ELSE Returns(ErrorCode.UNRECOGNIZED_ERROR)

\* The exit status click gives the process for what the command function did.
click_exit(result) == IF result.how = "ClickException" THEN result.value ELSE 0

NoExit == [by |-> "none", status |-> 0]

\* The second validator where there is none: as __init__ leaves it, no call made.
NoOther ==
    [s |-> [file |-> NoFile, token |-> "", line |-> 0, column |-> 0,
            stack |-> <<>>, outcome |-> NoOutcome, fetches |-> 0, opens |-> 0],
     filename |-> <<>>, content |-> <<>>]

(***************************************************************************)
(* The inputs: every text of at most MaxLen characters over ShortAlphabet, *)
(* every text one edit away from a seed document (a character replaced,    *)
(* inserted or deleted, or the text cut short), and documents with one     *)
(* construct LongRun items long.                                           *)
(***************************************************************************)
MaxLen == 3
LongRun == 1000

ShortAlphabet == {"[", "]", "{", "}", ",", QUOTE, "0", "1", SPACE, LF}

Alphabet ==
    {"[", "]", "{", "}", ",", ":", QUOTE, BACKSLASH, "/", "0", "1", "-", "+", ".",
     "e", "E", SPACE, TAB, CR, LF, "t", "r", "u", "f", "a", "l", "s", "n", "b", "x",
     SOH, ARABIC3, BADBYTE}

Seeds ==
    {<<"[", "t", "r", "u", "e", "]">>,
     <<"[", "f", "a", "l", "s", "e", "]">>,
     <<"[", "n", "u", "l", "l", "]">>,
     <<"{", QUOTE, "a", QUOTE, ":", "0", "}">>,
     <<"[", QUOTE, BACKSLASH, "u", "0", "a", "F", "1", QUOTE, "]">>,
     <<"[", QUOTE, BACKSLASH, "n", QUOTE, "]">>,
     <<"[", "-", "1", ".", "0", "e", "+", "1", "]">>,
     <<"[", "1", ",", "2", "]">>,
     <<"{", QUOTE, "a", QUOTE, ":", "1", ",", QUOTE, "b", QUOTE, ":", "2", "}">>,
     <<"[", LF, QUOTE, "a", QUOTE, ",", CR, LF, TAB, "1", SPACE, CR, "]">>,
     <<"[", "[", "]", ",", "{", "}", "]">>,
     <<"[", "1", "0", "E", "1", "]">>,
     <<"[", CR, "1", "0", ",", "{", QUOTE, "a", QUOTE, ":", "1", ",", CR,
       QUOTE, "b", QUOTE, ":", QUOTE, "c", QUOTE, "}", "]">>,
     <<"[", CR, "n", "u", "l", "l", "]">>}

ShortInputs == UNION {[1..n -> ShortAlphabet] : n \in 0..MaxLen}

Replace(s, i, c) == [s EXCEPT ![i] = c]
Insert(s, i, c) == SubSeq(s, 1, i - 1) \o <<c>> \o SubSeq(s, i, Len(s))
Delete(s, i) == SubSeq(s, 1, i - 1) \o SubSeq(s, i + 1, Len(s))

Edits(s) ==
    {s}
    \cup {Replace(s, i, c) : i \in 1..Len(s), c \in Alphabet}
    \cup {Insert(s, i, c) : i \in 1..(Len(s) + 1), c \in Alphabet}
    \cup {Delete(s, i) : i \in 1..Len(s)}
    \cup {SubSeq(s, 1, i) : i \in 0..Len(s)}

Run(c) == [i \in 1..LongRun |-> c]

LongInputs ==
    {<<"[", QUOTE>> \o Run("a") \o <<QUOTE, "]">>,
     <<"[">> \o Run("1") \o <<"]">>,
     <<"[">> \o Run(SPACE) \o <<"]">>,
     <<"[", "1">> \o [i \in 1..(2 * LongRun) |-> IF i % 2 = 1 THEN "," ELSE "1"]
         \o <<"]">>}

Inputs == ShortInputs \cup UNION {Edits(s) : s \in Seeds} \cup LongInputs

(***************************************************************************)
(* The initial state: a JsonValidator as __init__ leaves it, no call made. *)
(***************************************************************************)
Init ==
    /\ disk \in Inputs
    /\ file = NoFile
    /\ token = ""
    /\ line = 0
    /\ column = 0
    /\ stack = <<>>
    /\ outcome = NoOutcome
    /\ fetches = 0
    /\ opens = 0
    /\ path = <<>>
    /\ caller = "api"
    /\ exit_status = NoExit
    /\ other = NoOther

Idle == stack = <<>>
Running(fn) == stack /= <<>> /\ stack[Len(stack)].fn = fn

\* The start of a validate_json(filename) call.
Enter(filename, who) ==
    /\ path' = filename
    /\ caller' = who
    /\ stack' = <<Frame("validate_json", 0)>>
    /\ outcome' = Pending
    /\ fetches' = 0
    /\ opens' = 0
    /\ exit_status' = NoExit
    /\ UNCHANGED <<disk, other>>

\* A library user calls validate_json on the validator it already holds.
CallValidateJson ==
    /\ Idle
    /\ \E filename \in Paths : Enter(filename, "api")
    /\ UNCHANGED <<file, token, line, column>>

\* A command-line process starts: validator = JsonValidator(), then the call.
StartProcess ==
    /\ Idle
    /\ \E filename \in Paths : Enter(filename, "cli")
    /\ file' = NoFile
    /\ token' = ""
    /\ line' = 0
    /\ column' = 0

Step(fn, s) ==
    Running(fn) /\ Becomes(s) /\ UNCHANGED <<disk, path, caller, exit_status, other>>

ValidateJson == Step("validate_json", validate_json(Self))
OpenFile == Step("open_file", open_file(Self, path, disk))
Whitespace == Step("_whitespace", _whitespace(Self))
String == Step("_string", _string(Self))
StringChar == Step("_string_char", _string_char(Self))
StringBackslash == Step("_string_backslash", _string_backslash(Self))
StringHex == Step("_string_hex", _string_hex(Self))
Number == Step("_number", _number(Self))
Digit == Step("_digit", _digit(Self))
Decimal == Step("_decimal", _decimal(Self))
Exponent == Step("_exponent", _exponent(Self))
TrueValue == Step("_true_value", _true_value(Self))
FalseValue == Step("_false_value", _false_value(Self))
NullValue == Step("_null_value", _null_value(Self))
Value == Step("_value", _value(Self))
ValueList == Step("_value_list", _value_list(Self))
Array == Step("_array", _array(Self))
KeyValueList == Step("_key_value_list", _key_value_list(Self))
JsonObject == Step("_json_object", _json_object(Self))

\* The process of a command-line run ends, through either wrapper.
Exit(by, result) ==
    /\ Idle
    /\ caller = "cli"
    /\ outcome.type \notin {"none", "pending"}
    /\ exit_status = NoExit
    /\ exit_status' = [by |-> by, status |-> click_exit(result)]
    /\ UNCHANGED <<disk, file, token, line, column, stack, outcome, fetches, opens,
                   path, caller, other>>

Cli == Exit("cli", cli_result(outcome))
Main == Exit("main", main_result(outcome))

Next ==
    \/ CallValidateJson
    \/ StartProcess
    \/ ValidateJson
    \/ OpenFile
    \/ Whitespace
    \/ String
    \/ StringChar
    \/ StringBackslash
    \/ StringHex
    \/ Number
    \/ Digit
    \/ Decimal
    \/ Exponent
    \/ TrueValue
    \/ FalseValue
    \/ NullValue
    \/ Value
    \/ ValueList
    \/ Array
    \/ KeyValueList
    \/ JsonObject
    \/ Cli
    \/ Main

Spec == Init /\ [][Next]_vars

(***************************************************************************)
(* The reference the claims are read against: the JSON grammar of RFC 8259 *)
(* for a document whose top-level value is an object or an array, as a     *)
(* pushdown recogniser over the text as stored, and the coordinates of a   *)
(* character of that text.  Neither is taken from the validator's code.    *)
(***************************************************************************)
\* A left fold over s[lo..hi] that splits the range in halves, so that its
\* evaluation nests only logarithmically deep.
RECURSIVE FoldRange(_, _, _, _, _)
FoldRange(Op(_, _, _), acc, s, lo, hi) ==
    IF lo > hi THEN acc
    ELSE IF lo = hi THEN Op(acc, s[lo], lo)
    ELSE LET mid == (lo + hi) \div 2
             left == FoldRange(Op, acc, s, lo, mid)
         IN  \* The test has left computed before the right half is entered.
             IF left = left THEN FoldRange(Op, left, s, mid + 1, hi) ELSE acc

RfcWhitespace == {SPACE, TAB, LF, CR}
RfcDigit19 == {"1", "2", "3", "4", "5", "6", "7", "8", "9"}
RfcDigit == {"0"} \cup RfcDigit19
RfcHex == RfcDigit \cup {"a", "b", "c", "d", "e", "f", "A", "B", "C", "D", "E", "F"}
RfcEscapes == {QUOTE, BACKSLASH, "/", "b", "f", "n", "r", "t"}
\* Characters that may not appear unescaped in a string: U+0000 to U+001F (and,
\* here, what is no character at all).
RfcMustEscape == {TAB, LF, CR, SOH, BADBYTE}

\* A configuration: the state, the open containers ("A" array, "O" object,
\* innermost last), what is left of a keyword or of a \u escape, whether the
\* string being read is a key, and the index of the first rejected character.
RfcConfig(st, stk) == [st |-> st, stk |-> stk, rest |-> <<>>, key |-> FALSE, bad |-> 0]
RfcStart == RfcConfig("start", <<>>)
Push(stk, x) == Append(stk, x)
Pop(stk) == SubSeq(stk, 1, Len(stk) - 1)
Reject(cfg, i) == [cfg EXCEPT !.bad = i]
To(cfg, st) == [cfg EXCEPT !.st = st]

\* The character c starts a value.
RfcBeginValue(cfg, c, i) ==
    CASE c = QUOTE -> [cfg EXCEPT !.st = "string", !.key = FALSE]
      [] c = "-" -> To(cfg, "minus")
      [] c = "0" -> To(cfg, "zero")
      [] c \in RfcDigit19 -> To(cfg, "int")
      [] c = "{" -> [cfg EXCEPT !.st = "object", !.stk = Push(cfg.stk, "O")]
      [] c = "[" -> [cfg EXCEPT !.st = "array", !.stk = Push(cfg.stk, "A")]
      [] c = "t" -> [cfg EXCEPT !.st = "keyword", !.rest = <<"r", "u", "e">>]
      [] c = "f" -> [cfg EXCEPT !.st = "keyword", !.rest = <<"a", "l", "s", "e">>]
      [] c = "n" -> [cfg EXCEPT !.st = "keyword", !.rest = <<"u", "l", "l">>]
      [] OTHER -> Reject(cfg, i)

\* The character c follows a complete value.
RfcAfterValue(cfg, c, i) ==
    CASE c \in RfcWhitespace -> To(cfg, "after")
      [] cfg.stk = <<>> -> Reject(cfg, i)
      [] c = "," -> To(cfg, IF cfg.stk[Len(cfg.stk)] = "A" THEN "element" ELSE "member")
      [] c = "]" /\ cfg.stk[Len(cfg.stk)] = "A" ->
           [cfg EXCEPT !.st = "after", !.stk = Pop(cfg.stk)]
      [] c = "}" /\ cfg.stk[Len(cfg.stk)] = "O" ->
           [cfg EXCEPT !.st = "after", !.stk = Pop(cfg.stk)]
      [] OTHER -> Reject(cfg, i)

RfcStep(cfg, c, i) ==
    IF cfg.bad /= 0 THEN cfg
    ELSE CASE cfg.st = "start" ->
                IF c \in RfcWhitespace THEN cfg
                ELSE IF c \in {"{", "["} THEN RfcBeginValue(cfg, c, i)
                ELSE Reject(cfg, i)
           [] cfg.st = "array" ->
                IF c \in RfcWhitespace THEN cfg
                ELSE IF c = "]" THEN [cfg EXCEPT !.st = "after", !.stk = Pop(cfg.stk)]
                ELSE RfcBeginValue(cfg, c, i)
           [] cfg.st \in {"element", "value"} ->
                IF c \in RfcWhitespace THEN cfg ELSE RfcBeginValue(cfg, c, i)
           [] cfg.st = "object" ->
                IF c \in RfcWhitespace THEN cfg
                ELSE IF c = "}" THEN [cfg EXCEPT !.st = "after", !.stk = Pop(cfg.stk)]
                ELSE IF c = QUOTE THEN [cfg EXCEPT !.st = "string", !.key = TRUE]
                ELSE Reject(cfg, i)
           [] cfg.st = "member" ->
                IF c \in RfcWhitespace THEN cfg
                ELSE IF c = QUOTE THEN [cfg EXCEPT !.st = "string", !.key = TRUE]
                ELSE Reject(cfg, i)
           [] cfg.st = "colon" ->
                IF c \in RfcWhitespace THEN cfg
                ELSE IF c = ":" THEN To(cfg, "value")
                ELSE Reject(cfg, i)
           [] cfg.st = "after" -> RfcAfterValue(cfg, c, i)
           [] cfg.st = "string" ->
                IF c = QUOTE THEN To(cfg, IF cfg.key THEN "colon" ELSE "after")
                ELSE IF c = BACKSLASH THEN To(cfg, "escape")
                ELSE IF c \in RfcMustEscape THEN Reject(cfg, i)
                ELSE cfg
           [] cfg.st = "escape" ->
                IF c \in RfcEscapes THEN To(cfg, "string")
                ELSE IF c = "u" THEN [cfg EXCEPT !.st = "hex", !.rest = <<"h", "h", "h", "h">>]
                ELSE Reject(cfg, i)
           [] cfg.st = "hex" ->
                IF c \notin RfcHex THEN Reject(cfg, i)
                ELSE IF Len(cfg.rest) = 1 THEN [cfg EXCEPT !.st = "string", !.rest = <<>>]
                ELSE [cfg EXCEPT !.rest = Tail(cfg.rest)]
           [] cfg.st = "keyword" ->
                IF c /= Head(cfg.rest) THEN Reject(cfg, i)
                ELSE IF Len(cfg.rest) = 1 THEN [cfg EXCEPT !.st = "after", !.rest = <<>>]
                ELSE [cfg EXCEPT !.rest = Tail(cfg.rest)]
           [] cfg.st = "minus" ->
                IF c = "0" THEN To(cfg, "zero")
                ELSE IF c \in RfcDigit19 THEN To(cfg, "int")
                ELSE Reject(cfg, i)
           [] cfg.st = "zero" ->
                IF c = "." THEN To(cfg, "point")
                ELSE IF c \in {"e", "E"} THEN To(cfg, "exp")
                ELSE RfcAfterValue(cfg, c, i)
           [] cfg.st = "int" ->
                IF c \in RfcDigit THEN cfg
                ELSE IF c = "." THEN To(cfg, "point")
                ELSE IF c \in {"e", "E"} THEN To(cfg, "exp")
                ELSE RfcAfterValue(cfg, c, i)
           [] cfg.st = "point" ->
                IF c \in RfcDigit THEN To(cfg, "frac") ELSE Reject(cfg, i)
           [] cfg.st = "frac" ->
                IF c \in RfcDigit THEN cfg
                ELSE IF c \in {"e", "E"} THEN To(cfg, "exp")
                ELSE RfcAfterValue(cfg, c, i)
           [] cfg.st = "exp" ->
                IF c \in {"+", "-"} THEN To(cfg, "expsign")
                ELSE IF c \in RfcDigit THEN To(cfg, "expdigits")
                ELSE Reject(cfg, i)
           [] cfg.st = "expsign" ->
                IF c \in RfcDigit THEN To(cfg, "expdigits") ELSE Reject(cfg, i)
           [] OTHER -> \* "expdigits"
                IF c \in RfcDigit THEN cfg ELSE RfcAfterValue(cfg, c, i)

RfcRead(text) == FoldRange(RfcStep, RfcStart, text, 1, Len(text))

\* The text is a JSON document: one object or array, nothing else but whitespace.
ValidDocument(text) ==
    LET cfg == RfcRead(text) IN cfg.bad = 0 /\ cfg.st = "after" /\ cfg.stk = <<>>

\* The index of the first offending character of a text that is no document:
\* the first character no document continues with, or, when every character
\* can be continued, the end-of-input position one past the last character.
FirstOffending(text) ==
    LET cfg == RfcRead(text) IN IF cfg.bad /= 0 THEN cfg.bad ELSE Len(text) + 1

\* The coordinates of the character after c, given those of c.
Advance(at, c, i) ==
    CASE c = TAB -> [at EXCEPT !.column = at.column + 4]
      [] c = CR -> [at EXCEPT !.column = 1]
      [] c = LF -> [line |-> at.line + 1, column |-> 1]
      [] OTHER -> [at EXCEPT !.column = at.column + 1]

\* The 1-indexed coordinates of position i of the text (Len(text) + 1: the end).
Coordinates(text, i) ==
    FoldRange(Advance, [line |-> 1, column |-> 1], text, 1, i - 1)

\* The text holds nothing that is not a character.
IsText(text) == \A i \in 1..Len(text) : text[i] /= BADBYTE

(***************************************************************************)
(* What the claims speak of.                                               *)
(***************************************************************************)
\* A validate_json call has ended (and none has started since).
Finished == Idle /\ outcome.type \notin {"none", "pending"}
Raised(code) == Finished /\ outcome.type = "JSONValidatorError" /\ outcome.code = code
\* The call read the JSON file of the file system.
ReadTheFile == path = P_JSON

\* One step of the running call, whichever routine is on top of the stack.
StepOnce(s, filename, content) ==
    CASE Top(s).fn = "validate_json" -> validate_json(s)
      [] Top(s).fn = "open_file" -> open_file(s, filename, content)
      [] Top(s).fn = "_whitespace" -> _whitespace(s)
      [] Top(s).fn = "_string" -> _string(s)
      [] Top(s).fn = "_string_char" -> _string_char(s)
      [] Top(s).fn = "_string_backslash" -> _string_backslash(s)
      [] Top(s).fn = "_string_hex" -> _string_hex(s)
      [] Top(s).fn = "_number" -> _number(s)
      [] Top(s).fn = "_digit" -> _digit(s)
      [] Top(s).fn = "_decimal" -> _decimal(s)
      [] Top(s).fn = "_exponent" -> _exponent(s)
      [] Top(s).fn = "_true_value" -> _true_value(s)
      [] Top(s).fn = "_false_value" -> _false_value(s)
      [] Top(s).fn = "_null_value" -> _null_value(s)
      [] Top(s).fn = "_value" -> _value(s)
      [] Top(s).fn = "_value_list" -> _value_list(s)
      [] Top(s).fn = "_array" -> _array(s)
      [] Top(s).fn = "_key_value_list" -> _key_value_list(s)
      [] OTHER -> _json_object(s)

\* The call run to its end, in at most 2^(k+1) - 1 steps.
RECURSIVE RunFor(_, _, _, _)
RunFor(s, filename, content, k) ==
    IF Ended(s) THEN s
    ELSE IF k = 0 THEN StepOnce(s, filename, content)
    ELSE RunFor(RunFor(s, filename, content, k - 1), filename, content, k - 1)

MaxDoublings == 16

\* A validator fresh from __init__ on which validate_json has just been called.
FreshCall ==
    [file |-> NoFile, token |-> "", line |-> 0, column |-> 0,
     stack |-> <<Frame("validate_json", 0)>>, outcome |-> Pending,
     fetches |-> 0, opens |-> 0]

\* How validate_json(filename) ends on a freshly constructed validator.
FreshOutcome(filename, content) == RunFor(FreshCall, filename, content, MaxDoublings).outcome

(***************************************************************************)
(* The claims.                                                             *)
(***************************************************************************)

\* C1: validate_json returns without raising on every text that is a valid
\* RFC 8259 document with an object or array at the top, however long its
\* strings, numbers, whitespace runs and element lists are.
C1_ValidDocumentsSucceed ==
    (Finished /\ ReadTheFile /\ ValidDocument(disk)) => outcome.type = "return"

\* C2: validate_json succeeds only on valid documents, and every text that is
\* not a valid document makes it raise a JSONValidatorError.
C2_OnlyValidDocumentsSucceed ==
    (Finished /\ ReadTheFile)
        => /\ outcome.type = "return" => ValidDocument(disk)
           /\ ~ValidDocument(disk) => outcome.type = "JSONValidatorError"

\* C3: for an invalid text, the line and column of the raised JSONValidatorError
\* are the coordinates of the first offending character (or of the end of
\* input), counted from (1,1) with +1 per character, +4 per tab, column 1 after
\* a CR and the next line, column 1, after an LF.
C3_ErrorAtFirstOffendingCharacter ==
    (Finished /\ ReadTheFile /\ IsText(disk) /\ ~ValidDocument(disk)
       /\ outcome.type = "JSONValidatorError")
        => [line |-> outcome.line, column |-> outcome.column]
               = Coordinates(disk, FirstOffending(disk))

\* C4: every validate_json call ends in a normal return or in a raised
\* JSONValidatorError; no other exception type escapes.
C4_ReturnOrValidatorError ==
    Finished => outcome.type \in {"return", "JSONValidatorError"}

\* C5: once validate_json has opened the file, the file is closed when
\* validate_json has finished, on every exit path.
C5_FileClosedOnEveryExit ==
    (Finished /\ opens > 0) => file.state = "closed"

\* C6: a call on a validator that has run before ends as the same call on a
\* freshly constructed validator does: same success, or same kind, line and
\* column of the error.
C6_OutcomeAsOnFreshValidator ==
    Finished => outcome = FreshOutcome(path, disk)

\* C7: a file-access failure, or a decoding failure of the first fetch, raised
\* before any character has been read, carries line 0 and column 0.
C7_FileErrorsAtLineZeroColumnZero ==
    (\/ Raised("FILE_MISSING_ERROR")
     \/ Raised("FILE_TYPE_ERROR")
     \/ Raised("FILE_NOT_FOUND")
     \/ Raised("FILE_READ_ERROR") /\ fetches = 1)
        => outcome.line = 0 /\ outcome.column = 0

\* C8: the process of the cli command exits with 0 when validate_json
\* succeeded and with the integer value of the error's code when it raised a
\* JSONValidatorError.
C8_CliExitStatus ==
    exit_status.by = "cli"
        => /\ outcome.type = "return" => exit_status.status = 0
           /\ outcome.type = "JSONValidatorError"
                => exit_status.status = ErrorCode[outcome.code]

C8_Witness ==
    /\ exit_status.by = "cli"
    /\ outcome.type = "JSONValidatorError"
    /\ outcome.code = "OBJECT_KEY_ERROR"
    /\ exit_status.status = 19

\* C9: when validate_json fails with anything but a JSONValidatorError, the
\* process exits with UNRECOGNIZED_ERROR (25), never with 0.
C9_FallbackExitStatus ==
    (exit_status.by \in {"cli", "main"}
       /\ outcome.type \notin {"return", "JSONValidatorError"})
        => exit_status.status = 25

\* C10: open_file classifies the path first, and the first failing check wins:
\* no "." (or empty) is FILE_MISSING_ERROR, else not ending in ".json" is
\* FILE_TYPE_ERROR, else not existing is FILE_NOT_FOUND; when one of the first
\* two checks fails no file is opened and no character is fetched.
C10_PathClassification ==
    Finished
        => /\ path \in {P_NONE, P_NODOT}
                => Raised("FILE_MISSING_ERROR") /\ opens = 0 /\ fetches = 0
           /\ path \in {P_TEXT, P_BACKUP}
                => Raised("FILE_TYPE_ERROR") /\ opens = 0 /\ fetches = 0
           /\ path = P_ABSENT => Raised("FILE_NOT_FOUND")

C10_Witness ==
    /\ Raised("FILE_TYPE_ERROR")
    /\ path = P_BACKUP
    /\ opens = 0
    /\ fetches = 0

\* The call read a file that holds text.
ReadText == Finished /\ ReadTheFile /\ IsText(disk)
\* How the RFC reading of the file's text ends: with the state and the open
\* containers before the first offending character, if there is one.
Ref == RfcRead(disk)
Rejected == Ref.bad /= 0
OffendingChar == IF Rejected THEN disk[Ref.bad] ELSE EOF
\* The call raised this kind of error at the first offending character (or at
\* the end of input).
RaisedAtOffending(code) ==
    /\ Raised(code)
    /\ [line |-> outcome.line, column |-> outcome.column]
           = Coordinates(disk, FirstOffending(disk))

\* C11: when, after optional leading whitespace, the first significant token is
\* not '{' or '[' (a scalar, a closing bracket, or the end of an empty or
\* all-whitespace file), validate_json raises INVALID_START_ERROR at that
\* token's position.
C11_InvalidStartAtFirstToken ==
    (ReadText /\ Ref.st = "start") => RaisedAtOffending("INVALID_START_ERROR")

\* C12: after a complete top-level object or array and trailing whitespace, any
\* remaining character raises EOF_CHARACTER_ERROR at that character's line and
\* column, and no text with such a character is accepted.
TrailingContent == Rejected /\ Ref.st = "after" /\ Ref.stk = <<>>
C12_TrailingContentRejected ==
    (ReadText /\ TrailingContent)
        => RaisedAtOffending("EOF_CHARACTER_ERROR")

\* C13: an integer part that is the single digit 0 is valid, and an integer
\* part of 0 followed by another digit (with or without a leading '-') raises
\* NUMBER_LEADING_ZERO_ERROR at the line and column of that second digit.
DigitAfterZero == Rejected /\ Ref.st = "zero" /\ OffendingChar \in RfcDigit
C13_LeadingZero ==
    ReadText
        => /\ DigitAfterZero => RaisedAtOffending("NUMBER_LEADING_ZERO_ERROR")
           /\ ValidDocument(disk) => ~Raised("NUMBER_LEADING_ZERO_ERROR")

\* C14: in an array, where a value is expected (after '[' or after ',') and the
\* next significant character is ',' or ']', VALUE_CHARACTER_ERROR is raised at
\* that character's position; the empty arrays '[]' and '[ ]' are accepted.
ValueMissingInArray ==
    Rejected /\ Ref.st \in {"array", "element"} /\ OffendingChar \in {",", "]"}
C14_ValueExpectedInArray ==
    ReadText
        => /\ ValueMissingInArray => RaisedAtOffending("VALUE_CHARACTER_ERROR")
           /\ ValidDocument(disk) => ~Raised("VALUE_CHARACTER_ERROR")

\* C15: in an object, where a key is expected (after '{' of a non-empty object,
\* or after ',' and any whitespace) and the next significant character is not
\* '"', OBJECT_KEY_ERROR is raised at that character's position.
KeyMissingInObject == Rejected /\ Ref.st \in {"object", "member"}
C15_KeyExpectedInObject ==
    (ReadText /\ KeyMissingInObject) => RaisedAtOffending("OBJECT_KEY_ERROR")

\* C16: inside a string an unescaped tab or line feed raises
\* STRING_CHARACTER_ERROR at that character's own position, while the escaped
\* forms \t and \n are accepted and the string continues.
RawTabOrLineFeedInString ==
    Rejected /\ Ref.st = "string" /\ OffendingChar \in {TAB, LF}
EscapedTabOrLineFeed ==
    \E i \in 1..(Len(disk) - 1) :
        disk[i] = BACKSLASH /\ disk[i + 1] \in {"t", "n"}
C16_TabAndLineFeedInString ==
    ReadText
        => /\ RawTabOrLineFeedInString => RaisedAtOffending("STRING_CHARACTER_ERROR")
           /\ (ValidDocument(disk) /\ EscapedTabOrLineFeed /\ Len(disk) < RecursionLimit)
                => outcome.type = "return"

\* C17: the ErrorCode members have pairwise distinct integer values and only
\* SUCCESS has the value 0, so the exit status of a failed command-line run is
\* never 0 and is the value of no other kind than the one raised.
C17_ErrorCodesDistinct ==
    /\ \A a, b \in DOMAIN ErrorCode : ErrorCode[a] = ErrorCode[b] => a = b
    /\ \A a \in DOMAIN ErrorCode : ErrorCode[a] = 0 => a = "SUCCESS"
    /\ (exit_status.by = "cli" /\ outcome.type = "JSONValidatorError")
         => /\ exit_status.status /= 0
            /\ {k \in DOMAIN ErrorCode : ErrorCode[k] = exit_status.status}
                   = {outcome.code}

C17_Witness ==
    /\ exit_status.by = "cli"
    /\ outcome.type = "JSONValidatorError"
    /\ outcome.code = "INVALID_START_ERROR"
    /\ exit_status.status = 23

(***************************************************************************)
(* Two validators at once: two JsonValidator instances, each in a          *)
(* validate_json call of its own (on two threads), their steps interleaved *)
(* in any order.  The first instance is the one of the variables above,    *)
(* the second is the variable other.                                       *)
(***************************************************************************)
\* The fields a step of the instance s reads and writes, t being the other
\* instance, had _token been an attribute of the class and not of the instance.
FieldsWithSharedToken(s, t) == [s EXCEPT !.token = t.token]

\* The fields a step of the instance s reads and writes, t being the other
\* instance: its own, set on self by __init__; nothing is kept in the class or
\* in the module.
OwnFields(s, t) == s

ConcurrentInputs ==
    {<<>>,
     <<"[", "1", ",", "2", "]">>,
     <<"{", QUOTE, "a", QUOTE, ":", "0", "}">>,
     <<"[", LF, "t", "r", "u", "x", "]">>,
     <<"[", QUOTE, TAB>>}

ConcurrentPaths == {P_JSON, P_NONE}

InitConcurrent ==
    /\ disk \in ConcurrentInputs
    /\ path \in ConcurrentPaths
    /\ file = FreshCall.file
    /\ token = FreshCall.token
    /\ line = FreshCall.line
    /\ column = FreshCall.column
    /\ stack = FreshCall.stack
    /\ outcome = FreshCall.outcome
    /\ fetches = FreshCall.fetches
    /\ opens = FreshCall.opens
    /\ caller = "api"
    /\ exit_status = NoExit
    /\ other \in [s : {FreshCall}, filename : ConcurrentPaths, content : ConcurrentInputs]

\* A step of the call on the first instance.
StepFirst ==
    /\ ~Ended(Self)
    /\ Becomes(StepOnce(OwnFields(Self, other.s), path, disk))
    /\ UNCHANGED <<disk, path, caller, exit_status, other>>

\* A step of the call on the second instance.
StepSecond ==
    /\ ~Ended(other.s)
    /\ other' = [other EXCEPT
                    !.s = StepOnce(OwnFields(other.s, Self), other.filename, other.content)]
    /\ UNCHANGED <<disk, file, token, line, column, stack, outcome, fetches, opens,
                   path, caller, exit_status>>

NextConcurrent == StepFirst \/ StepSecond

SpecConcurrent == InitConcurrent /\ [][NextConcurrent]_vars

IsReturn(s, r) == Depth(r) < Depth(s) /\ r.outcome = Pending

\* The index in the stored text of the lookahead r.token (one past the end of
\* the text when the lookahead is the end of input; the CR of a CR LF pair read
\* as one line feed).
LookaheadIndex(r) ==
    IF r.token = EOF THEN Len(r.file.text) + 1
    ELSE IF /\ r.file.pos > 1
            /\ r.file.text[r.file.pos] = LF
            /\ r.file.text[r.file.pos - 1] = CR
         THEN r.file.pos - 1
    ELSE r.file.pos

\* The states of the RFC reading inside a number, and those where what was read
\* of it is a complete number.
NumberStates == {"minus", "zero", "int", "point", "frac", "exp", "expsign", "expdigits"}
NumberEndStates == {"zero", "int", "frac", "expdigits"}

\* The characters _number and the routines it calls can consume.
NumberChars == AsciiDigits \cup {ARABIC3, "-", "+", ".", "e", "E"}

\* The index where the number that ends before index k starts: _number is
\* entered after '[', ',', ':' or whitespace, none of which it can consume.
NumberStart(text, k) ==
    LET starts == {j \in 1..(k - 1) : \A i \in j..(k - 1) : text[i] \in NumberChars}
    IN  IF starts = {} THEN k ELSE CHOOSE j \in starts : \A h \in starts : j <= h

\* What was consumed before the lookahead of r is a complete RFC 8259 number,
\* and the lookahead is not a character that continues that number.
NumberJustRead(r) ==
    LET text == r.file.text
        k == LookaheadIndex(r)
        cfg == FoldRange(RfcStep, RfcConfig("element", <<"A">>), text,
                         NumberStart(text, k), k - 1)
    IN  /\ cfg.bad = 0
        /\ cfg.st \in NumberEndStates
        /\ k <= Len(text)
             => LET next == RfcStep(cfg, text[k], k)
                IN  next.bad /= 0 \/ next.st \notin NumberStates

\* C19: when _number returns, what it consumed is a number of the RFC 8259
\* grammar -?(0|[1-9][0-9]*)(.[0-9]+)?([eE][+-]?[0-9]+)? over the digits 0-9,
\* and the lookahead is the first character past that number, not consumed.
C19_NumberGrammarAndLookahead ==
    (Running("_number") /\ IsReturn(Self, _number(Self)))
        => NumberJustRead(_number(Self))

\* C20: the end of input right after a leading '-' or right after '.' raises
\* NUMBER_EOF_ERROR; a non-digit after '-' or after '.' raises
\* NUMBER_DIGIT_ERROR at that character; after 'e' or 'E' and an optional single
\* sign, anything but a digit (the end of input and a second sign included)
\* raises NUMBER_EXPONENT_ERROR at that position.
DigitMissing == Ref.st \in {"minus", "point"}
ExponentDigitMissing == Ref.st \in {"exp", "expsign"}
C20_NumberErrorKinds ==
    ReadText
        => /\ (DigitMissing /\ ~Rejected) => Raised("NUMBER_EOF_ERROR")
           /\ (DigitMissing /\ Rejected) => RaisedAtOffending("NUMBER_DIGIT_ERROR")
           /\ ExponentDigitMissing => RaisedAtOffending("NUMBER_EXPONENT_ERROR")

(***************************************************************************)
(* Where the RFC reading of the text stops, by construct.                  *)
(***************************************************************************)
\* The end of input was reached with no character rejected.
AtEndOfInput == ~Rejected
LastChar == IF disk = <<>> THEN EOF ELSE disk[Len(disk)]
\* The innermost open container is an array ("A") or an object ("O").
Innermost == IF Ref.stk = <<>> THEN "none" ELSE Ref.stk[Len(Ref.stk)]
\* A value of the innermost container is complete and the text stops there
\* (a digit after a leading zero is the number's own error).
AfterValueIn(container) ==
    /\ Ref.st \in {"after"} \cup NumberEndStates
    /\ Innermost = container
    /\ ~DigitAfterZero
HasBackslash == \E i \in 1..Len(disk) : disk[i] = BACKSLASH

\* C21: after a backslash in a string the characters " \ / b f n r t are
\* accepted as escapes; u must be followed by four characters of 0-9a-fA-F,
\* the first other character or the end of input raising STRING_HEX_ERROR at
\* its position; any other character after the backslash raises
\* STRING_ESCAPE_ERROR at that character; the string goes on after an escape.
C21_StringEscapes ==
    ReadText
        => /\ (Rejected /\ Ref.st = "escape") => RaisedAtOffending("STRING_ESCAPE_ERROR")
           /\ Ref.st = "hex" => RaisedAtOffending("STRING_HEX_ERROR")
           /\ (HasBackslash /\ ValidDocument(disk)) => outcome.type = "return"

\* C22: the end of input inside a string, outside a \u sequence (after an
\* ordinary character, after a completed escape or directly after a
\* backslash), raises STRING_EOF_ERROR at the end-of-input position.
C22_EndOfInputInString ==
    (ReadText /\ AtEndOfInput /\ Ref.st \in {"string", "escape"})
        => RaisedAtOffending("STRING_EOF_ERROR")

\* C23: in true, false and null the first character that is not the next
\* letter of the keyword raises VALUE_CHARACTER_ERROR at its position, and the
\* end of input before the keyword is complete raises VALUE_EOF_ERROR at the
\* end-of-input position.
C23_KeywordErrors ==
    (ReadText /\ Ref.st = "keyword")
        => IF Rejected THEN RaisedAtOffending("VALUE_CHARACTER_ERROR")
           ELSE RaisedAtOffending("VALUE_EOF_ERROR")

\* C24: VALUE_EOF_ERROR is raised only when the end of input comes before the
\* last letter of true, false or null has been read; after the last letter the
\* routine returns, whatever follows, the end of input included.
C24_KeywordEndsAtLastLetter ==
    (ReadText /\ Raised("VALUE_EOF_ERROR")) => (AtEndOfInput /\ Ref.st = "keyword")

\* C25: the end of input right after '[' or right after a ',' of an array
\* raises ARRAY_EOF_ERROR; after a complete element and its whitespace, any
\* token other than ',' or ']' (the end of input included) raises
\* ARRAY_CHARACTER_ERROR at that token's position.
C25_ArrayStructureErrors ==
    ReadText
        => /\ (AtEndOfInput /\ Ref.st \in {"array", "element"} /\ LastChar \in {"[", ","})
                => Raised("ARRAY_EOF_ERROR")
           /\ AfterValueIn("A") => RaisedAtOffending("ARRAY_CHARACTER_ERROR")

\* C26: after a key and whitespace any token other than ':' (the end of input
\* included) raises OBJECT_SEPARATOR_ERROR at that token; the end of input
\* right after '{', ':' or a ',' of an object raises OBJECT_EOF_ERROR; after a
\* complete pair any token other than ',' or '}' (the end of input included)
\* raises OBJECT_CLOSE_ERROR at that token's position.
C26_ObjectStructureErrors ==
    ReadText
        => /\ Ref.st = "colon" => RaisedAtOffending("OBJECT_SEPARATOR_ERROR")
           /\ (AtEndOfInput /\ Ref.st \in {"object", "value", "member"}
                 /\ Innermost = "O" /\ LastChar \in {"{", ":", ","})
                => Raised("OBJECT_EOF_ERROR")
           /\ AfterValueIn("O") => RaisedAtOffending("OBJECT_CLOSE_ERROR")

(***************************************************************************)
(* Position tracking while a call is running.                              *)
(***************************************************************************)
\* A grammar routine is about to inspect the lookahead: open_file has returned
\* and the call has not ended.
Inspecting == ~Idle /\ fetches > 0 /\ ~Running("open_file")
Position == [line |-> line, column |-> column]

\* C27: from the end of open_file on, whenever a routine inspects the lookahead,
\* line >= 1 and column >= 1, (line, column) are the coordinates of the
\* lookahead character as the coordinate rule derives them from the characters
\* consumed so far, and the line never decreases during the call.
C27_PositionTracking ==
    /\ [](Inspecting
            => /\ line >= 1
               /\ column >= 1
               /\ Position = Coordinates(file.text, LookaheadIndex(Self)))
    /\ [][(Inspecting /\ Inspecting') => line' >= line]_vars

(***************************************************************************)
(* The depth of the call stack against the nesting of the document.        *)
(***************************************************************************)
RECURSIVE Count(_, _)
\* The frames of the routines named in fns on the stack.
Count(stk, fns) ==
    IF stk = <<>> THEN 0
    ELSE Count(SubSeq(stk, 1, Len(stk) - 1), fns)
         + (IF stk[Len(stk)].fn \in fns THEN 1 ELSE 0)

\* The arrays and objects open at this point of the run.
NestingDepth == Count(stack, {"_array", "_json_object"})

\* A linear bound with room to spare: a level of nesting needs the frames of
\* _value, a container and its list; a scalar needs at most _string,
\* _string_char, _string_backslash, _string_hex and a fetch or a raise.
DepthBound(nesting) == 8 * nesting + 16

\* C28: the depth of the call stack is bounded by a fixed linear function of
\* the nesting depth of the document alone, whatever the length of its
\* strings, numbers, whitespace runs and element lists.
C28_DepthBoundedByNesting == Depth(Self) <= DepthBound(NestingDepth)

(***************************************************************************)
(* The fetches of a call.                                                  *)
(***************************************************************************)
\* The call in progress, or the one that has just ended, has read the file.
Fetching == path = P_JSON /\ fetches > 0 /\ outcome.type /= "none"

\* C30: the end-of-input sentinel is fetched at most once and nothing is
\* fetched after it; every character of the input is fetched exactly once, in
\* order, so the k-th fetch delivers the k-th character; a call makes at most
\* Len(input) + 1 fetches, and exactly that many when it succeeds.
C30_FetchOnceInOrder ==
    /\ [](Fetching
            => /\ fetches <= Len(disk) + 1
               /\ (Inspecting /\ IsText(disk)) => fetches = LookaheadIndex(Self)
               /\ (Finished /\ outcome.type = "return") => fetches = Len(disk) + 1)
    /\ [][(Inspecting /\ token = EOF) => fetches' = fetches]_vars

(***************************************************************************)
(* Termination.  A call that has started keeps running: the interpreter    *)
(* executes the calling thread until validate_json returns or raises.      *)
(***************************************************************************)
RunningCall ==
    \/ ValidateJson \/ OpenFile \/ Whitespace \/ String \/ StringChar
    \/ StringBackslash \/ StringHex \/ Number \/ Digit \/ Decimal \/ Exponent
    \/ TrueValue \/ FalseValue \/ NullValue \/ Value \/ ValueList \/ Array
    \/ KeyValueList \/ JsonObject

\* The files of the termination check: the long runs, and every seed document
\* whole, cut off at every point, and with one character removed.
TerminationInputs ==
    LongInputs
    \cup UNION {{SubSeq(s, 1, i) : i \in 0..Len(s)} \cup {Delete(s, i) : i \in 1..Len(s)}
                  : s \in Seeds}

InitFair == Init /\ disk \in TerminationInputs

SpecFair == InitFair /\ [][Next]_vars /\ WF_vars(RunningCall)

\* The characters _whitespace skips.
WhitespaceTokens == {SPACE, TAB, CR, LF}
\* The routines with a `for` loop.
LoopRoutines == {"_string_hex", "_true_value", "_false_value", "_null_value"}

\* The step enters a routine (a call).
IsCall == Len(stack') = Len(stack) + 1
\* A routine is entered while an activation of it is on the stack only after
\* the call has fetched at least one character more than at that activation.
RecursionAfterFetch ==
    IsCall => \A i \in 1..Len(stack) :
                  stack[i].fn = stack'[Len(stack')].fn => stack[i].at < fetches'
\* Going round a `for` loop fetches one character.
LoopAfterFetch ==
    (/\ stack /= <<>>
     /\ Top(Self).fn \in LoopRoutines
     /\ Len(stack') = Len(stack)
     /\ stack'[Len(stack')].pc > Top(Self).pc) => fetches' = fetches + 1
\* _whitespace fetches nothing once the lookahead is not whitespace (the end
\* of input included) and returns with such a lookahead.
WhitespaceStops ==
    Running("_whitespace")
        => /\ token \notin WhitespaceTokens
                => fetches' = fetches /\ Len(stack') = Len(stack) - 1
           /\ (Len(stack') = Len(stack) - 1 /\ outcome' = Pending)
                => token' \notin WhitespaceTokens

\* C29: every validate_json call ends, by a return or by one raised error;
\* every recursive call and every round of a loop of the grammar routines comes
\* after the fetch of one more character, and whitespace skipping stops at the
\* first character that is not whitespace or at the end of input.
C29_Termination ==
    /\ (~Idle) ~> Finished
    /\ [][RecursionAfterFetch /\ LoopAfterFetch /\ WhitespaceStops]_vars

\* A call has ended after recursion, a loop and whitespace skipping.
C29_Witness ==
    /\ Finished
    /\ ReadTheFile
    /\ outcome.type = "return"
    /\ \E i \in 1..Len(disk) : disk[i] = SPACE
    /\ \E i \in 1..Len(disk) : disk[i] = QUOTE
    /\ Len(disk) > 5

=============================================================================
